---- MODULE Spec2Model ----
(***************************************************************************)
(* Model of wrangle_stewart_01.py: the cached acquisition of the zillow    *)
(* table, the single-unit filter, the threshold pruning of sparse columns  *)
(* and rows, the missingness diagnostics, the fips relabelling and the     *)
(* wrangle_zillow pipeline that chains them.                               *)
(*                                                                         *)
(* A dataframe is a record [cols, rows]: cols is the sequence of column    *)
(* names, rows the sequence of records [idx, cells], idx the row's index   *)
(* label and cells a function from the column names to cells.  A cell is   *)
(* null (NaN), a number or a string.  Numbers are held as integers in      *)
(* units of 1/Scale, so that 300.5 or 6037.5 are values of the model and   *)
(* the integer cast is not the identity.  A threshold is the numerator of  *)
(* a fraction over Den.                                                    *)
(***************************************************************************)
EXTENDS Integers, Sequences, FiniteSets, TLC

VARIABLES file, queries, failed, last, acq, pc, zillow,
          prop_req_col, prop_req_row, ret, err, diag

vars == <<file, queries, failed, last, acq, pc, zillow,
          prop_req_col, prop_req_row, ret, err, diag>>

\* ------------------------------------------------------------------ bounds
\* Numbers are multiples of 1/Scale.
Scale == 2
\* Thresholds are the fractions 0/Den .. Den/Den.
Den == 2
\* Rows of a query result (the pipeline's specification).
MaxRows == 2
\* Failed queries in one behaviour.
MaxFail == 1
\* Rows of an input of only_single_units.
MaxRowsFilter == 2
\* Rows and columns of an input of the null-count functions.
MaxR == 2
MaxC == 3
\* Rows of an input of label_fips.
MaxRowsLabel == 2

\* ------------------------------------------------------------------- cells
Null == [k |-> "null", n |-> 0, s |-> ""]
Num(x) == [k |-> "num", n |-> x, s |-> ""]
\* The number v, a whole number of the source, as a cell.
Whole(v) == Num(v * Scale)
Str(t) == [k |-> "str", n |-> 0, s |-> t]

isnull(c) == c.k = "null"
notnull(c) == ~isnull(c)

Range(s) == {s[i] : i \in 1..Len(s)}

EmptyFrame == [cols |-> <<>>, rows |-> <<>>]

\* df[mask]: the rows whose label the boolean mask marks, in order, labels
\* kept.  The mask is looked up by index label.
SelectRows(df, mask) ==
    [df EXCEPT !.rows = SelectSeq(df.rows, LAMBDA r : mask[r.idx])]

\* df[cols]: the columns named in keepcols, every row kept.
SelectCols(df, keepcols) ==
    [cols |-> keepcols,
     rows |-> [i \in 1..Len(df.rows) |->
                 [idx |-> df.rows[i].idx,
                  cells |-> [c \in Range(keepcols) |-> df.rows[i].cells[c]]]]]

Labels(df) == {df.rows[i].idx : i \in 1..Len(df.rows)}

\* The row of df labelled i (labels are unique: a RangeIndex).
RowAt(df, i) == CHOOSE r \in Range(df.rows) : r.idx = i

\* A frame of n rows labelled 0..n-1, as read_sql builds it.
Frame(cols, f) ==
    [cols |-> cols,
     rows |-> [i \in 1..Len(f) |-> [idx |-> i - 1, cells |-> f[i]]]]


\* --------------------------------------------------------------- the cache
\* zillow.csv: a header and one line per row, the index label first.
\* to_csv writes a null and an empty string alike as an empty field;
\* read_csv reads an empty field as null.
Empty == [t |-> "empty", n |-> 0, s |-> ""]
field(c) ==
    IF c.k = "num" THEN [t |-> "number", n |-> c.n, s |-> ""]
    ELSE IF c.k = "str" /\ c.s # "" THEN [t |-> "text", n |-> 0, s |-> c.s]
    ELSE Empty

parse(f) ==
    IF f.t = "number" THEN Num(f.n)
    ELSE IF f.t = "text" THEN Str(f.s)
    ELSE Null

to_csv(df) ==
    [header |-> df.cols,
     lines |-> [i \in 1..Len(df.rows) |->
                  [idx |-> df.rows[i].idx,
                   fields |-> [c \in Range(df.cols) |-> field(df.rows[i].cells[c])]]]]

read_csv(csv) ==
    [cols |-> csv.header,
     rows |-> [i \in 1..Len(csv.lines) |->
                 [idx |-> csv.lines[i].idx,
                  cells |-> [c \in Range(csv.header) |-> parse(csv.lines[i].fields[c])]]]]

NoFile == [exists |-> FALSE, csv |-> [header |-> <<>>, lines |-> <<>>]]
CacheFile(csv) == [exists |-> TRUE, csv |-> csv]

\* ------------------------------------------------------- only_single_units
LandUse == {261, 262, 263, 264, 266, 268, 273, 276, 279}
MinBaths == 0
MinSqFt == 300
OneUnit == 1

isin(c, S) == c.k = "num" /\ \E v \in S : c.n = v * Scale
gt(c, v) == c.k = "num" /\ c.n > v * Scale
eq(c, v) == c.k = "num" /\ c.n = v * Scale

\* A boolean Series over the index of df: test on each row.
LandUseMask(df) ==
    [i \in Labels(df) |->
        isin(RowAt(df, i).cells["propertylandusetypeid"], LandUse)]

\* The mask of line 75 is computed on the unfiltered frame and aligned to
\* the filtered one by index label.
BathsSqFtMask(df) ==
    [i \in Labels(df) |->
        gt(RowAt(df, i).cells["baths"], MinBaths)
        /\ gt(RowAt(df, i).cells["sq_ft"], MinSqFt)]

UnitcntMask(df) ==
    [i \in Labels(df) |->
        eq(RowAt(df, i).cells["unitcnt"], OneUnit)
        \/ isnull(RowAt(df, i).cells["unitcnt"])]

\* A variant with a fault: the null unit count is not let through.
only_single_units_strict(df) ==
    LET zillow_filt1 == SelectRows(df, LandUseMask(df))
        zillow_filt2 == SelectRows(zillow_filt1, BathsSqFtMask(df))
    IN  SelectRows(zillow_filt2,
            [i \in Labels(zillow_filt2) |->
                eq(RowAt(zillow_filt2, i).cells["unitcnt"], OneUnit)])

only_single_units(df) ==
    LET zillow_filt1 == SelectRows(df, LandUseMask(df))
        zillow_filt2 == SelectRows(zillow_filt1, BathsSqFtMask(df))
    IN  SelectRows(zillow_filt2, UnitcntMask(zillow_filt2))

\* --------------------------------------------------- handle_missing_values
\* DataFrame.count: the non-null cells of a column, of a row.
CountCol(df, c) == Cardinality({i \in 1..Len(df.rows) : notnull(df.rows[i].cells[c])})
CountRow(df, r) == Cardinality({j \in 1..Len(df.cols) : notnull(r.cells[df.cols[j]])})

\* dropna(axis=1, thresh=num/Den * len(df)): keep count >= thresh.
DropSparseCols(df, num) ==
    SelectCols(df, SelectSeq(df.cols, LAMBDA c :
                       CountCol(df, c) * Den >= num * Len(df.rows)))

\* dropna(thresh=num/Den * len(df.columns)): keep count >= thresh.
DropSparseRows(df, num) ==
    SelectRows(df, [i \in Labels(df) |->
        CountRow(df, RowAt(df, i)) * Den >= num * Len(df.cols)])

\* A variant with a fault: the row step measures against the column count
\* from before the column step.
handle_missing_values_old_cols(df, pcol, prow) ==
    LET pruned == DropSparseCols(df, pcol)
    IN  SelectRows(pruned, [i \in Labels(pruned) |->
            CountRow(pruned, RowAt(pruned, i)) * Den >= prow * Len(df.cols)])

\* A variant with a fault: the two steps in the other order.
handle_missing_values_rows_first(df, pcol, prow) ==
    DropSparseCols(DropSparseRows(df, prow), pcol)

handle_missing_values(df, pcol, prow) ==
    DropSparseRows(DropSparseCols(df, pcol), prow)

\* ---------------------------------------------------------------- label_fips
LosAngeles == 6037
Orange == 6059
Ventura == 6111

\* astype(int): truncation toward zero.
astype_int(c) ==
    IF c.n >= 0 THEN Num((c.n \div Scale) * Scale)
    ELSE Num(-(((-c.n) \div Scale) * Scale))

\* Series.replace with the three-entry dict: other values pass through.
replace(c) ==
    IF eq(c, LosAngeles) THEN Str("Los Angeles, CA")
    ELSE IF eq(c, Orange) THEN Str("Orange, CA")
    ELSE IF eq(c, Ventura) THEN Str("Ventura, CA")
    ELSE c

HasCol(df, c) == c \in Range(df.cols)

\* zillow.fips raises AttributeError without the column; astype(int)
\* raises on a null.
label_fips_error(df) ==
    IF ~HasCol(df, "fips") THEN "AttributeError"
    ELSE IF \E i \in 1..Len(df.rows) : df.rows[i].cells["fips"].k # "num"
         THEN "ValueError"
    ELSE ""

\* A variant with a fault: fips is relabelled without the cast.
label_fips_no_cast(df) ==
    LET newcols == IF HasCol(df, "fips_loc") THEN df.cols
                   ELSE Append(df.cols, "fips_loc")
    IN  [cols |-> newcols,
         rows |-> [i \in 1..Len(df.rows) |->
            [idx |-> df.rows[i].idx,
             cells |-> [c \in Range(newcols) |->
                IF c = "fips_loc" THEN replace(df.rows[i].cells["fips"])
                ELSE df.rows[i].cells[c]]]]]

label_fips(df) ==
    LET newcols == IF HasCol(df, "fips_loc") THEN df.cols
                   ELSE Append(df.cols, "fips_loc")
    IN  [cols |-> newcols,
         rows |-> [i \in 1..Len(df.rows) |->
            [idx |-> df.rows[i].idx,
             cells |-> [c \in Range(newcols) |->
                IF c = "fips" THEN astype_int(df.rows[i].cells["fips"])
                ELSE IF c = "fips_loc"
                     THEN replace(astype_int(df.rows[i].cells["fips"]))
                ELSE df.rows[i].cells[c]]]]]

\* ------------------------------------------------ drop(columns=...).dropna()
Dropped == <<"unitcnt", "propertylandusetypeid">>

drop_error(df) ==
    IF \E j \in 1..Len(Dropped) : ~HasCol(df, Dropped[j]) THEN "KeyError" ELSE ""

\* A variant with a fault: the columns are dropped, the null rows are not.
drop_without_dropna(df) ==
    SelectCols(df, SelectSeq(df.cols, LAMBDA c : c \notin Range(Dropped)))

drop_dropna(df) ==
    LET less == SelectCols(df, SelectSeq(df.cols, LAMBDA c : c \notin Range(Dropped)))
    IN  SelectRows(less, [i \in Labels(less) |->
            \A c \in Range(less.cols) : notnull(RowAt(less, i).cells[c])])

\* ------------------------------------------------------- the diagnostics
\* isnull().sum(axis=1) of one row, isnull().sum() of one column.
NullsInRow(df, r) == Len(df.cols) - CountRow(df, r)
NullsInCol(df, c) == Len(df.rows) - CountCol(df, c)

\* The quotient a / b, kept exact as the pair of its terms (b = 0, which
\* pandas answers with NaN, is the pair <<a, 0>>).
Quot(a, b) == <<a, b>>

\* value_counts(): the distinct values and how many rows hold each.
Distinct(df) == {NullsInRow(df, df.rows[i]) : i \in 1..Len(df.rows)}
Occurrences(df, k) ==
    Cardinality({i \in 1..Len(df.rows) : NullsInRow(df, df.rows[i]) = k})

\* value_counts() sorts by count, largest first; the order among equal
\* counts is whatever the sort leaves, so every such order is an outcome.
ValueCountsOrders(df) ==
    {s \in [1..Cardinality(Distinct(df)) -> Distinct(df)] :
        /\ \A i, j \in DOMAIN s : i # j => s[i] # s[j]
        /\ \A i, j \in DOMAIN s :
              i < j => Occurrences(df, s[i]) >= Occurrences(df, s[j])}

\* A variant with a fault: the percentage is taken over the row count.
rows_missing_cols_over_rows(df, order) ==
    [i \in 1..Len(order) |->
        [num_cols_missing |-> order[i],
         pct_cols_missing |-> Quot(order[i], Len(df.rows)),
         num_rows |-> Occurrences(df, order[i])]]

rows_missing_cols(df, order) ==
    [i \in 1..Len(order) |->
        [num_cols_missing |-> order[i],
         pct_cols_missing |-> Quot(order[i], Len(df.cols)),
         num_rows |-> Occurrences(df, order[i])]]

cols_missing_rows(df) ==
    [j \in 1..Len(df.cols) |->
        [column |-> df.cols[j],
         num_rows_missing |-> NullsInCol(df, df.cols[j]),
         pct_rows_missing |-> Quot(NullsInCol(df, df.cols[j]), Len(df.rows))]]

\* ------------------------------------------------------------ the pipeline
\* The columns of the query that the stages refer to, and two of the rest:
\* one that may be null and one that never is.
QueryCols == <<"baths", "sq_ft", "fips", "unitcnt", "propertylandusetypeid",
               "garagecarcnt", "transactiondate">>

\* The rows a query result is built from: single-unit rows with fips,
\* unitcnt and garagecarcnt present or null, and a row of another land use.
QueryRows ==
    [baths : {Whole(2)},
     sq_ft : {Whole(1200)},
     fips : {Null, Whole(LosAngeles)},
     unitcnt : {Null, Whole(OneUnit)},
     propertylandusetypeid : {Whole(261)},
     garagecarcnt : {Null, Whole(2)},
     transactiondate : {Str("2017-01-01")}]
    \cup
    [baths : {Whole(2)},
     sq_ft : {Whole(1200)},
     fips : {Whole(LosAngeles)},
     unitcnt : {Whole(OneUnit)},
     propertylandusetypeid : {Whole(265)},
     garagecarcnt : {Whole(2)},
     transactiondate : {Str("2017-01-01")}]

Thresholds == 0..Den

Init ==
    /\ file = NoFile
    /\ queries = 0
    /\ failed = 0
    /\ last = "none"
    /\ acq = EmptyFrame
    /\ pc = "idle"
    /\ zillow = EmptyFrame
    /\ prop_req_col = 0
    /\ prop_req_row = 0
    /\ ret = EmptyFrame
    /\ err = ""
    /\ diag = <<>>

\* wrangle_zillow(prop_req_col, prop_req_row) is called.  Its stages are
\* the steps below; pc is the stage reached, and nothing else runs between
\* them.
Start(pcol, prow) ==
    /\ pc \in {"idle", "done", "error"}
    /\ pc' = "acquire"
    /\ prop_req_col' = pcol
    /\ prop_req_row' = prow
    /\ zillow' = EmptyFrame
    /\ acq' = EmptyFrame
    /\ ret' = EmptyFrame
    /\ err' = ""
    /\ last' = "none"
    /\ UNCHANGED <<file, queries, failed, diag>>

\* A variant with a fault: the file is read and the query is run all the same.
AcquireCachedRequery ==
    /\ pc = "acquire"
    /\ file.exists
    /\ zillow' = read_csv(file.csv)
    /\ acq' = zillow'
    /\ queries' = queries + 1
    /\ last' = "hit"
    /\ pc' = "acquired"
    /\ UNCHANGED <<file, failed, prop_req_col, prop_req_row, ret, err, diag>>

\* acquire_zillow, the file present: read it, no query, no write.
AcquireCached ==
    /\ pc = "acquire"
    /\ file.exists
    /\ zillow' = read_csv(file.csv)
    /\ acq' = zillow'
    /\ last' = "hit"
    /\ pc' = "acquired"
    /\ UNCHANGED <<file, queries, failed, prop_req_col, prop_req_row, ret, err, diag>>

\* acquire_zillow, the file absent, the query answering t: write, return.
AcquireQueryOk(t) ==
    /\ pc = "acquire"
    /\ ~file.exists
    /\ queries' = queries + 1
    /\ file' = CacheFile(to_csv(t))
    /\ zillow' = t
    /\ acq' = t
    /\ last' = "miss"
    /\ pc' = "acquired"
    /\ UNCHANGED <<failed, prop_req_col, prop_req_row, ret, err, diag>>

\* A variant with a fault: the file is created before the query has answered.
AcquireQueryFailWrites ==
    /\ pc = "acquire"
    /\ ~file.exists
    /\ failed < MaxFail
    /\ queries' = queries + 1
    /\ failed' = failed + 1
    /\ file' = CacheFile(to_csv(EmptyFrame))
    /\ last' = "fail"
    /\ err' = "OperationalError"
    /\ pc' = "error"
    /\ UNCHANGED <<acq, zillow, prop_req_col, prop_req_row, ret, diag>>

\* acquire_zillow, the file absent, read_sql (or the import of env.py in
\* get_url) raising: to_csv is not reached, nothing is written.
AcquireQueryFail ==
    /\ pc = "acquire"
    /\ ~file.exists
    /\ failed < MaxFail
    /\ queries' = queries + 1
    /\ failed' = failed + 1
    /\ last' = "fail"
    /\ err' = "OperationalError"
    /\ pc' = "error"
    /\ UNCHANGED <<file, acq, zillow, prop_req_col, prop_req_row, ret, diag>>

\* only_single_units(acquire_zillow())
Filter ==
    /\ pc = "acquired"
    /\ zillow' = only_single_units(zillow)
    /\ pc' = "filtered"
    /\ UNCHANGED <<file, queries, failed, last, acq, prop_req_col, prop_req_row,
                   ret, err, diag>>

\* handle_missing_values(..., prop_req_col, prop_req_row)
Prune ==
    /\ pc = "filtered"
    /\ zillow' = handle_missing_values(zillow, prop_req_col, prop_req_row)
    /\ pc' = "pruned"
    /\ UNCHANGED <<file, queries, failed, last, acq, prop_req_col, prop_req_row,
                   ret, err, diag>>

\* zillow.drop(columns=['unitcnt', 'propertylandusetypeid']).dropna()
DropStage ==
    /\ pc = "pruned"
    /\ drop_error(zillow) = ""
    /\ zillow' = drop_dropna(zillow)
    /\ pc' = "dropped"
    /\ UNCHANGED <<file, queries, failed, last, acq, prop_req_col, prop_req_row,
                   ret, err, diag>>

\* drop raises KeyError when a named column is no longer there.
DropStageRaises ==
    /\ pc = "pruned"
    /\ drop_error(zillow) # ""
    /\ err' = drop_error(zillow)
    /\ zillow' = EmptyFrame
    /\ pc' = "error"
    /\ UNCHANGED <<file, queries, failed, last, acq, prop_req_col, prop_req_row,
                   ret, diag>>

\* label_fips(zillow), and the return of line 104.
LabelStage ==
    /\ pc = "dropped"
    /\ label_fips_error(zillow) = ""
    /\ zillow' = label_fips(zillow)
    /\ ret' = zillow'
    /\ pc' = "done"
    /\ UNCHANGED <<file, queries, failed, last, acq, prop_req_col, prop_req_row,
                   err, diag>>

\* label_fips raises when the fips column is no longer there.
LabelStageRaises ==
    /\ pc = "dropped"
    /\ label_fips_error(zillow) # ""
    /\ err' = label_fips_error(zillow)
    /\ zillow' = EmptyFrame
    /\ pc' = "error"
    /\ UNCHANGED <<file, queries, failed, last, acq, prop_req_col, prop_req_row,
                   ret, diag>>

Next ==
    \/ \E pcol \in Thresholds, prow \in Thresholds : Start(pcol, prow)
    \/ AcquireCached
    \/ \E n \in 0..MaxRows : \E f \in [1..n -> QueryRows] :
          AcquireQueryOk(Frame(QueryCols, f))
    \/ AcquireQueryFail
    \/ Filter
    \/ Prune
    \/ DropStage
    \/ DropStageRaises
    \/ LabelStage
    \/ LabelStageRaises

Spec == Init /\ [][Next]_vars

\* ------------------------------------------ only_single_units on its own
FilterRows ==
    [baths : {Null, Whole(MinBaths), Num(MinBaths * Scale + 1)},
     sq_ft : {Null, Whole(MinSqFt), Num(MinSqFt * Scale + 1)},
     fips : {Whole(LosAngeles)},
     unitcnt : {Null, Whole(OneUnit), Whole(OneUnit + 1)},
     propertylandusetypeid : {Null, Whole(279), Whole(265)},
     garagecarcnt : {Null},
     transactiondate : {Str("2017-01-01")}]

\* The state before a call of a function on the frame df.
Called(df) ==
    /\ file = NoFile
    /\ queries = 0
    /\ failed = 0
    /\ last = "none"
    /\ acq = df
    /\ pc = "call"
    /\ zillow = df
    /\ prop_req_col = 0
    /\ prop_req_row = 0
    /\ ret = EmptyFrame
    /\ err = ""
    /\ diag = <<>>

InitFilter ==
    \E n \in 0..MaxRowsFilter : \E f \in [1..n -> FilterRows] :
        Called(Frame(QueryCols, f))

CallOnlySingleUnits ==
    /\ pc = "call"
    /\ ret' = only_single_units(zillow)
    /\ pc' = "only_single_units"
    /\ UNCHANGED <<file, queries, failed, last, acq, zillow, prop_req_col,
                   prop_req_row, err, diag>>

NextFilter == CallOnlySingleUnits

SpecFilter == InitFilter /\ [][NextFilter]_vars

\* ------------------------------------- the null-count functions on their own
MissingCols(C) == SubSeq(QueryCols, 1, C)

InitMissing ==
    \E C \in 1..MaxC : \E n \in 0..MaxR :
        \E f \in [1..n -> [Range(MissingCols(C)) -> {Null, Whole(1)}]] :
            Called(Frame(MissingCols(C), f))

CallHandleMissingValues(pcol, prow) ==
    /\ pc = "call"
    /\ prop_req_col' = pcol
    /\ prop_req_row' = prow
    /\ ret' = handle_missing_values(zillow, pcol, prow)
    /\ pc' = "handle_missing_values"
    /\ UNCHANGED <<file, queries, failed, last, acq, zillow, err, diag>>

CallRowsMissingCols(order) ==
    /\ pc = "call"
    /\ diag' = rows_missing_cols(zillow, order)
    /\ pc' = "rows_missing_cols"
    /\ UNCHANGED <<file, queries, failed, last, acq, zillow, prop_req_col,
                   prop_req_row, ret, err>>

CallColsMissingRows ==
    /\ pc = "call"
    /\ diag' = cols_missing_rows(zillow)
    /\ pc' = "cols_missing_rows"
    /\ UNCHANGED <<file, queries, failed, last, acq, zillow, prop_req_col,
                   prop_req_row, ret, err>>

NextMissing ==
    \/ \E pcol \in Thresholds, prow \in Thresholds :
          CallHandleMissingValues(pcol, prow)
    \/ \E order \in ValueCountsOrders(zillow) : CallRowsMissingCols(order)
    \/ CallColsMissingRows

SpecMissing == InitMissing /\ [][NextMissing]_vars

\* ---------------------------------------------------- label_fips on its own
LabelCols == <<"fips", "transactiondate">>

LabelRows ==
    [fips : {Null, Whole(LosAngeles), Num(LosAngeles * Scale + 1), Whole(Orange),
             Whole(Ventura), Whole(Ventura + 1)},
     transactiondate : {Null, Str("2017-01-01")}]

InitLabel ==
    \E n \in 0..MaxRowsLabel : \E f \in [1..n -> LabelRows] :
        Called(Frame(LabelCols, f))

\* label_fips assigns into the frame it is given and returns that frame.
CallLabelFips ==
    /\ pc = "call"
    /\ label_fips_error(zillow) = ""
    /\ zillow' = label_fips(zillow)
    /\ ret' = zillow'
    /\ pc' = "label_fips"
    /\ UNCHANGED <<file, queries, failed, last, acq, prop_req_col, prop_req_row,
                   err, diag>>

CallLabelFipsRaises ==
    /\ pc = "call"
    /\ label_fips_error(zillow) # ""
    /\ err' = label_fips_error(zillow)
    /\ pc' = "error"
    /\ UNCHANGED <<file, queries, failed, last, acq, zillow, prop_req_col,
                   prop_req_row, ret, diag>>

NextLabel == CallLabelFips \/ CallLabelFipsRaises

SpecLabel == InitLabel /\ [][NextLabel]_vars

\* ================================================================= claims

\* The non-null cells of row r among the columns colset, counted directly.
NonNullAmong(r, colset) == Cardinality({c \in colset : r.cells[c].k # "null"})
\* The non-null cells of column c over the rows of df, counted directly.
NonNullDown(df, c) ==
    Cardinality({i \in 1..Len(df.rows) : df.rows[i].cells[c].k # "null"})
\* The row r cut down to the columns colset.
Restricted(r, colset) == [idx |-> r.idx, cells |-> [c \in colset |-> r.cells[c]]]

\* The four conditions of the single-unit filter, on one row.
KeptBySingleUnitFilter(r) ==
    /\ r.cells["propertylandusetypeid"].k = "num"
    /\ r.cells["propertylandusetypeid"].n \in
          {261 * Scale, 262 * Scale, 263 * Scale, 264 * Scale, 266 * Scale,
           268 * Scale, 273 * Scale, 276 * Scale, 279 * Scale}
    /\ r.cells["baths"].k = "num" /\ r.cells["baths"].n > 0
    /\ r.cells["sq_ft"].k = "num" /\ r.cells["sq_ft"].n > 300 * Scale
    /\ \/ r.cells["unitcnt"].k = "null"
       \/ r.cells["unitcnt"].k = "num" /\ r.cells["unitcnt"].n = Scale

\* C1: only_single_units returns exactly the rows of its input, in their
\* order and unchanged, whose land-use code is in the allow-list, whose baths
\* are positive, whose sq_ft exceeds 300 and whose unitcnt is 1 or null; no
\* row with null baths, null sq_ft or another unitcnt is kept.
C1_SingleUnitsExactly ==
    pc = "only_single_units" =>
        /\ ret.cols = zillow.cols
        /\ ret.rows = SelectSeq(zillow.rows, KeptBySingleUnitFilter)
        /\ \A i \in 1..Len(ret.rows) :
              /\ ret.rows[i].cells["baths"].k # "null"
              /\ ret.rows[i].cells["sq_ft"].k # "null"
              /\ ret.rows[i].cells["unitcnt"] \in {Null, Num(Scale)}

C1_Witness ==
    /\ pc = "only_single_units"
    /\ Len(zillow.rows) = 2
    /\ Len(ret.rows) = 1
    /\ ret.rows[1].idx = 1
    /\ ret.rows[1].cells["unitcnt"] = Null
    /\ zillow.rows[1].cells["sq_ft"] = Num(300 * Scale)

\* The columns the column step keeps: those with at least
\* prop_req_col * R non-null values, R the input's row count.
C2_KeptCols ==
    SelectSeq(zillow.cols, LAMBDA c :
        NonNullDown(zillow, c) * Den >= prop_req_col * Len(zillow.rows))

\* C2: handle_missing_values keeps a column iff its non-null count is at
\* least prop_req_col * R (R the original row count), and then keeps a row
\* iff its non-null count among the surviving columns is at least
\* prop_req_row * C' (C' the number of surviving columns).
C2_TwoOrderedSteps ==
    pc = "handle_missing_values" =>
        /\ ret.cols = C2_KeptCols
        /\ ret.rows = SelectSeq(
              [i \in 1..Len(zillow.rows) |->
                  Restricted(zillow.rows[i], Range(C2_KeptCols))],
              LAMBDA r : NonNullAmong(r, Range(C2_KeptCols)) * Den
                            >= prop_req_row * Len(C2_KeptCols))

\* A column went, a row went, and a kept row would have gone had the row
\* step used the original column count.
C2_Witness ==
    /\ pc = "handle_missing_values"
    /\ Len(ret.cols) < Len(zillow.cols)
    /\ Len(ret.rows) < Len(zillow.rows)
    /\ \E i \in 1..Len(ret.rows) :
          NonNullAmong(ret.rows[i], Range(ret.cols)) * Den
             < prop_req_row * Len(zillow.cols)

\* C7: (the docstring) a column is removed iff its proportion of nulls
\* exceeds prop_req_col, a row iff its proportion of nulls exceeds
\* prop_req_row.
C7_MaxNullProportion ==
    pc = "handle_missing_values" =>
        /\ \A c \in Range(zillow.cols) :
              c \notin Range(ret.cols) <=>
                 (Len(zillow.rows) - NonNullDown(zillow, c)) * Den
                     > prop_req_col * Len(zillow.rows)
        /\ \A i \in 1..Len(zillow.rows) :
              zillow.rows[i].idx \notin Labels(ret) <=>
                 (Len(zillow.cols) - NonNullAmong(zillow.rows[i], Range(zillow.cols))) * Den
                     > prop_req_row * Len(zillow.cols)

\* C10 as claimed: a second application with the same thresholds changes
\* nothing.
C10_Idempotent ==
    pc = "handle_missing_values" =>
        handle_missing_values(ret, prop_req_col, prop_req_row) = ret

\* Every retained column has at least prop_req_col * (returned row count)
\* non-null values among the returned rows.
C10_ColsStillDense ==
    \A c \in Range(ret.cols) :
        NonNullDown(ret, c) * Den >= prop_req_col * Len(ret.rows)

\* C10 as amended: every retained row has at least prop_req_row * (returned
\* column count) non-null values, every retained column had at least
\* prop_req_col * (input row count) non-null values in the input, and a
\* second application changes nothing exactly when every retained column
\* still has prop_req_col * (returned row count) non-null values.
C10_IdempotentWhenColsStillDense ==
    pc = "handle_missing_values" =>
        /\ \A i \in 1..Len(ret.rows) :
              NonNullAmong(ret.rows[i], Range(ret.cols)) * Den
                 >= prop_req_row * Len(ret.cols)
        /\ \A c \in Range(ret.cols) :
              NonNullDown(zillow, c) * Den >= prop_req_col * Len(zillow.rows)
        /\ C10_ColsStillDense
             <=> handle_missing_values(ret, prop_req_col, prop_req_row) = ret

\* The row step removed the rows that held a retained column's values.
C10_Witness ==
    /\ pc = "handle_missing_values"
    /\ Len(ret.rows) > 0
    /\ Len(ret.rows) < Len(zillow.rows)
    /\ ~C10_ColsStillDense

RECURSIVE SumNumRows(_)
SumNumRows(d) == IF d = <<>> THEN 0 ELSE d[1].num_rows + SumNumRows(Tail(d))

\* The rows of the input with exactly k null cells.
RowsWithNulls(k) ==
    {i \in 1..Len(zillow.rows) :
        Cardinality({c \in Range(zillow.cols) : zillow.rows[i].cells[c].k = "null"}) = k}

\* C8: rows_missing_cols returns one record for each null count k that
\* occurs, with num_cols_missing = k, pct_cols_missing = k / C and num_rows
\* the number of rows with exactly k nulls; no record has num_rows = 0, the
\* num_rows sum to R, and the input is not modified.
C8_NullCountDistribution ==
    pc = "rows_missing_cols" =>
        /\ \A k \in 0..Len(zillow.cols) :
              RowsWithNulls(k) # {} =>
                 Cardinality({i \in 1..Len(diag) : diag[i].num_cols_missing = k}) = 1
        /\ \A i \in 1..Len(diag) :
              /\ diag[i].num_rows = Cardinality(RowsWithNulls(diag[i].num_cols_missing))
              /\ diag[i].num_rows > 0
              /\ diag[i].pct_cols_missing
                    = <<diag[i].num_cols_missing, Len(zillow.cols)>>
        /\ SumNumRows(diag) = Len(zillow.rows)
        /\ zillow = acq

C8_Witness ==
    /\ pc = "rows_missing_cols"
    /\ Len(zillow.rows) = 2
    /\ Len(zillow.cols) = 3
    /\ Len(diag) = 2
    /\ diag[1].num_cols_missing = 3

\* C6: label_fips casts fips to integer and adds fips_loc: 6037, 6059 and
\* 6111 give the three county names, any other code gives the row's own
\* integer fips; rows, their order and the other columns are unchanged.
C6_LabelFips ==
    pc = "label_fips" =>
        /\ ret.cols = Append(acq.cols, "fips_loc")
        /\ Len(ret.rows) = Len(acq.rows)
        /\ \A i \in 1..Len(ret.rows) :
              LET old == acq.rows[i]
                  new == ret.rows[i]
              IN  /\ new.idx = old.idx
                  /\ \A c \in Range(acq.cols) \ {"fips"} : new.cells[c] = old.cells[c]
                  /\ new.cells["fips"].k = "num"
                  /\ new.cells["fips"].n % Scale = 0
                  /\ new.cells["fips"].n <= old.cells["fips"].n
                  /\ old.cells["fips"].n < new.cells["fips"].n + Scale
                  /\ new.cells["fips_loc"] =
                        CASE new.cells["fips"].n = 6037 * Scale -> Str("Los Angeles, CA")
                          [] new.cells["fips"].n = 6059 * Scale -> Str("Orange, CA")
                          [] new.cells["fips"].n = 6111 * Scale -> Str("Ventura, CA")
                          [] OTHER -> new.cells["fips"]

C6_Witness ==
    /\ pc = "label_fips"
    /\ Len(ret.rows) = 2
    /\ acq.rows[1].cells["fips"] = Num(6037 * Scale + 1)
    /\ ret.rows[1].cells["fips_loc"] = Str("Los Angeles, CA")
    /\ ret.rows[2].cells["fips_loc"] = Num(6112 * Scale)

\* C3: acquire_zillow queries the database iff the cache file is absent.
\* With the file present it returns the file's content, queries nothing and
\* writes nothing; with it absent it queries once, writes the result to the
\* file and returns it.  The file, once there, is not changed, so at most
\* one query succeeds and every later call returns what the first cached.
C3_QueryIffCacheAbsent ==
    /\ [][(pc = "acquire" /\ pc' # "acquire") =>
            /\ (queries' = queries + 1) <=> ~file.exists
            /\ queries' \in {queries, queries + 1}
            /\ file.exists =>
                  /\ file' = file
                  /\ pc' = "acquired"
                  /\ zillow' = read_csv(file.csv)
            /\ (~file.exists /\ pc' = "acquired") =>
                  /\ file'.exists
                  /\ file'.csv = to_csv(zillow')
            /\ queries' - failed' <= 1]_vars
    /\ [][file.exists => file' = file]_vars

C3_Witness ==
    /\ pc = "acquired"
    /\ last = "hit"
    /\ queries = 1
    /\ Len(zillow.rows) = 2

\* C9: a failed query ends acquire_zillow in an error after that one query,
\* with the cache file still absent, so that the next call queries again;
\* the file only ever comes to hold the result of a query that succeeded.
C9_FailedQueryLeavesNoCache ==
    /\ [][(pc = "acquire" /\ pc' = "error") =>
            /\ ~file.exists
            /\ ~file'.exists
            /\ queries' = queries + 1
            /\ err' = "OperationalError"]_vars
    /\ [][(pc = "acquire" /\ failed > 0 /\ ~file.exists /\ pc' # pc) =>
            queries' = queries + 1]_vars
    /\ [][(file' # file) =>
            /\ ~file.exists
            /\ pc' = "acquired"
            /\ last' = "miss"
            /\ file' = CacheFile(to_csv(zillow'))]_vars

C9_Witness ==
    /\ pc = "acquired"
    /\ last = "miss"
    /\ failed = 1
    /\ queries = 2
    /\ file.exists

\* C4: wrangle_zillow returns label_fips of the null-free, column-dropped,
\* pruned, filtered acquired table, the stages in that order; the returned
\* table has no null cell, no unitcnt or propertylandusetypeid column, a
\* fips_loc column, and each of its rows comes from an acquired row that
\* passed the single-unit filter.
C4_PipelineOrderAndResult ==
    pc = "done" =>
        /\ ret = label_fips(drop_dropna(handle_missing_values(
                    only_single_units(acq), prop_req_col, prop_req_row)))
        /\ \A i \in 1..Len(ret.rows) : \A c \in Range(ret.cols) :
              ret.rows[i].cells[c].k # "null"
        /\ "unitcnt" \notin Range(ret.cols)
        /\ "propertylandusetypeid" \notin Range(ret.cols)
        /\ "fips_loc" \in Range(ret.cols)
        /\ \A i \in 1..Len(ret.rows) :
              \E j \in 1..Len(acq.rows) :
                 /\ acq.rows[j].idx = ret.rows[i].idx
                 /\ KeptBySingleUnitFilter(acq.rows[j])
                 /\ \A c \in Range(ret.cols) \ {"fips", "fips_loc"} :
                       ret.rows[i].cells[c] = acq.rows[j].cells[c]

C4_Witness ==
    /\ pc = "done"
    /\ Len(acq.rows) = 2
    /\ Len(ret.rows) = 1
    /\ ret.rows[1].idx = 1
    /\ "garagecarcnt" \notin Range(ret.cols)
    /\ acq.rows[1].cells["propertylandusetypeid"] = Num(261 * Scale)

\* C5: for every pair of thresholds and every acquired table the call
\* returns a table: no stage after the acquisition raises.
C5_AlwaysReturnsATable ==
    pc = "error" => last = "fail"

====
